---- MODULE Spec2Model ----
(***************************************************************************)
(* Model of three units of the nextcloud-vue component library:             *)
(*   - the isMobile mixin (shared viewport flag, resize handler, data()),   *)
(*   - NcColorPicker (palette / advanced picker, contrast colour helper),   *)
(*   - NcDialog (button close, closing / closed handlers, 300 ms timer).    *)
(* Each unit has its own specification over the shared variable list; the   *)
(* variables of the other units stay at their initial value.                *)
(***************************************************************************)
EXTENDS Integers, Sequences, FiniteSets, TLC

VARIABLES
    \* ---- isMobile mixin ----
    clientWidth,    \* document.documentElement.clientWidth
    state,          \* Vue.observable({ isMobile })
    components,     \* data objects of the components created through the mixin
    lastRead,       \* <<value>> a consumer read last (<<>> before any read)
    lastMeasured,   \* history: clientWidth at module load / at the last resize event
    events,         \* history: the last two resize events (width measured, flag stored)
    lastOp,         \* history: name of the last operation of the unit
    \* ---- colour helper (pure functions) ----
    hexIn,          \* the colour string under test, a sequence of characters
    hexMeta,        \* history: how hexIn was written (its form and channel values)
    colorOut,       \* outcome of the helper applied to hexIn
    \* ---- NcColorPicker ----
    value,          \* prop value
    palette,        \* prop palette
    paletteOnly,    \* prop paletteOnly
    currentColor,   \* data currentColor
    advanced,       \* data advanced
    emitted,        \* events the picker emitted, oldest first
    restricted,     \* history: paletteOnly has been true since the picker was created
    pickArg,        \* history: argument of the last pickColor call
    pickerOp,       \* history: name of the last operation of the unit
    \* ---- NcDialog ----
    open,           \* prop open
    showModal,      \* ref showModal
    timers,         \* pending window.setTimeout callbacks, oldest first
    dlgEmitted,     \* events the dialog emitted, oldest first
    nClicks,        \* history: number of button clicks so far
    reopened        \* history: open was set to true again while a timer was pending

mobileVars == <<clientWidth, state, components, lastRead, lastMeasured, events, lastOp>>
colorVars  == <<hexIn, hexMeta, colorOut>>
pickerVars == <<value, palette, paletteOnly, currentColor, advanced, emitted,
                restricted, pickArg, pickerOp>>
dialogVars == <<open, showModal, timers, dlgEmitted, nClicks, reopened>>
vars == <<clientWidth, state, components, lastRead, lastMeasured, events, lastOp,
          hexIn, hexMeta, colorOut,
          value, palette, paletteOnly, currentColor, advanced, emitted,
          restricted, pickArg, pickerOp,
          open, showModal, timers, dlgEmitted, nClicks, reopened>>

(***************************************************************************)
(* Bounds                                                                   *)
(***************************************************************************)
WidthMargin   == 2
MaxComponents == 2
ChanSteps     == 3
MaxEmits      == 5
MaxClicks     == 2

(***************************************************************************)
(* isMobile mixin                                                           *)
(***************************************************************************)
MOBILE_THRESHOLD == 768

\* widths around the threshold, a phone, a desktop and an empty document
Widths == ((MOBILE_THRESHOLD - WidthMargin)..(MOBILE_THRESHOLD + WidthMargin))
              \cup {0, 320, 1024}

\* mutant: the threshold itself counts as mobile
_isMobile_inclusive(w) == w <= MOBILE_THRESHOLD

\* const _isMobile = () => document.documentElement.clientWidth < 768
_isMobile(w) == w < MOBILE_THRESHOLD

\* data() { return { isMobile: state.isMobile } }
data(st) == [isMobile |-> st.isMobile]

\* mutant: the handler only ever switches the flag on
_onResize_latch(st, w) == [st EXCEPT !.isMobile = st.isMobile \/ _isMobile(w)]

\* mutant: the handler flips the flag on every event
_onResize_toggle(st, w) == [st EXCEPT !.isMobile = ~st.isMobile]

\* Vue.set(state, 'isMobile', _isMobile())
_onResize(st, w) == [st EXCEPT !.isMobile = _isMobile(w)]

\* the last two entries of a history
LastTwo(h) == IF Len(h) > 2 THEN SubSeq(h, Len(h) - 1, Len(h)) ELSE h

MobileIdle ==
    /\ clientWidth = 0
    /\ state = [isMobile |-> TRUE]
    /\ components = <<>>
    /\ lastRead = <<>>
    /\ lastMeasured = 0
    /\ events = <<>>
    /\ lastOp = "idle"

\* module load: const state = Vue.observable({ isMobile: _isMobile() })
MobileInit ==
    /\ clientWidth \in Widths
    /\ state = [isMobile |-> _isMobile(clientWidth)]
    /\ components = <<>>
    /\ lastRead = <<>>
    /\ lastMeasured = clientWidth
    /\ events = <<>>
    /\ lastOp = "load"

\* the host lays the window out at another width
\* (jest.spyOn(document.documentElement, 'clientWidth', 'get').mockReturnValue(width))
SetClientWidth ==
    \E w \in Widths :
        /\ w # clientWidth
        /\ clientWidth' = w
        /\ lastOp' = "setWidth"
        /\ UNCHANGED <<state, components, lastRead, lastMeasured, events>>
        /\ UNCHANGED <<colorVars, pickerVars, dialogVars>>

\* window.dispatchEvent(new window.Event('resize')) -> _onResize
OnResize ==
    /\ state' = _onResize(state, clientWidth)
    /\ lastMeasured' = clientWidth
    /\ events' = LastTwo(Append(events, [width |-> clientWidth, flag |-> state'.isMobile]))
    /\ lastOp' = "resize"
    /\ UNCHANGED <<clientWidth, components, lastRead>>
    /\ UNCHANGED <<colorVars, pickerVars, dialogVars>>

\* mutant: creating a component measures the width again and stores the flag
CreateComponent_refresh ==
    /\ Len(components) < MaxComponents
    /\ state' = _onResize(state, clientWidth)
    /\ components' = Append(components, data(state'))
    /\ lastOp' = "create"
    /\ UNCHANGED <<clientWidth, lastRead, lastMeasured, events>>
    /\ UNCHANGED <<colorVars, pickerVars, dialogVars>>

\* a component using the mixin is created: its data() is evaluated once
CreateComponent ==
    /\ Len(components) < MaxComponents
    /\ components' = Append(components, data(state))
    /\ lastOp' = "create"
    /\ UNCHANGED <<clientWidth, state, lastRead, lastMeasured, events>>
    /\ UNCHANGED <<colorVars, pickerVars, dialogVars>>

\* a consumer component reads this.isMobile
ReadFlag ==
    \E i \in 1..Len(components) :
        /\ lastRead' = <<components[i].isMobile>>
        /\ lastOp' = "read"
        /\ UNCHANGED <<clientWidth, state, components, lastMeasured, events>>
        /\ UNCHANGED <<colorVars, pickerVars, dialogVars>>

(***************************************************************************)
(* Properties of the isMobile mixin (checked under SpecMobile)              *)
(***************************************************************************)
\* C1: after module load and any sequence of resize events, state.isMobile
\* equals (w < 768) for the width w measured at the most recent resize event,
\* or at module load when there was no resize event yet.
C1_FlagIsModeOfLastMeasuredWidth ==
    state.isMobile = (lastMeasured < 768)

\* a resize event measured 767 after the flag had been stored as not-mobile
C1_Witness ==
    /\ lastOp = "resize"
    /\ lastMeasured = 767
    /\ state.isMobile
    /\ \E i \in 1..Len(components) : ~components[i].isMobile

\* C2: after a resize event every component created through the mixin,
\* also one created before the event, holds an isMobile equal to state.isMobile.
C2_ComponentsFollowSharedFlag ==
    lastOp = "resize" => \A i \in 1..Len(components) : components[i].isMobile = state.isMobile

\* C3: _isMobile gives true for every width below 768 and false for every
\* width from 768 on (767 is mobile, 768 is not), and the flag stored at module
\* load and by a resize event is that value for the current width.
C3_ModeFunction ==
    /\ \A w \in Widths : (w < 768 => _isMobile(w) = TRUE) /\ (w >= 768 => _isMobile(w) = FALSE)
    /\ _isMobile(767) = TRUE
    /\ _isMobile(768) = FALSE
    /\ lastOp \in {"load", "resize"} =>
           /\ clientWidth < 768 => state.isMobile = TRUE
           /\ clientWidth >= 768 => state.isMobile = FALSE

\* a resize event at 768 stored not-mobile after one at 767 had stored mobile
C3_Witness ==
    /\ lastOp = "resize"
    /\ clientWidth = 768
    /\ state.isMobile = FALSE
    /\ Len(events) = 2
    /\ events[1].width = 767
    /\ events[1].flag = TRUE

\* C4: two consecutive resize events that measure the same width leave the
\* flag after the second equal to the flag after the first, and the handler
\* can always run to its end (it has no failing path).
C4_ResizeIdempotent ==
    /\ (Len(events) = 2 /\ events[1].width = events[2].width) =>
           /\ events[2].flag = events[1].flag
           /\ state.isMobile = events[1].flag
    /\ ENABLED OnResize

\* two events in a row measured 767, after the module was loaded wider
C4_Witness ==
    /\ Len(events) = 2
    /\ events[1].width = 767
    /\ events[2].width = 767
    /\ lastOp = "resize"
    /\ state.isMobile

\* C5: state.isMobile changes only in a step of the resize handler; creating
\* a component (data()) and reading the flag leave it unchanged.
C5_SingleWriter ==
    /\ [][state' # state => OnResize]_vars
    /\ [][(CreateComponent \/ ReadFlag \/ SetClientWidth) => state' = state]_vars

\* a component created and read while the window is wider than at the last
\* resize event: the flag is still the one the handler stored
C5_Witness ==
    /\ lastOp = "read"
    /\ lastMeasured = 320
    /\ clientWidth = 1024
    /\ state.isMobile
    /\ lastRead = <<TRUE>>

(***************************************************************************)
(* Colour helper of NcColorPicker                                           *)
(***************************************************************************)
LowerDigits == <<"0","1","2","3","4","5","6","7","8","9","a","b","c","d","e","f">>
UpperDigits == <<"0","1","2","3","4","5","6","7","8","9","A","B","C","D","E","F">>

\* character class [a-f\d] under the /i flag
IsHexDigit(ch) == \E i \in 1..16 : LowerDigits[i] = ch \/ UpperDigits[i] = ch

DigitValue(ch) == (CHOOSE i \in 1..16 : LowerDigits[i] = ch \/ UpperDigits[i] = ch) - 1

\* parseInt(s, 16) of a two-character group
parseInt16(s) == 16 * DigitValue(s[1]) + DigitValue(s[2])

Null == <<>>

\* /^#?([a-f\d]{2})([a-f\d]{2})([a-f\d]{2})$/i.exec(hex)
hexToRGB(hex) ==
    LET body == IF Len(hex) > 0 /\ hex[1] = "#" THEN Tail(hex) ELSE hex
    IN  IF Len(body) = 6 /\ \A i \in 1..6 : IsHexDigit(body[i])
        THEN <<parseInt16(SubSeq(body, 1, 2)),
               parseInt16(SubSeq(body, 3, 4)),
               parseInt16(SubSeq(body, 5, 6))>>
        ELSE Null

\* const HEX_REGEX = /^#([a-f0-9]{3}|[a-f0-9]{6})$/i
HEX_REGEX(s) ==
    /\ Len(s) \in {4, 7}
    /\ s[1] = "#"
    /\ \A i \in 2..Len(s) : IsHexDigit(s[i])

\* luma is kept as the integer 10000 * 255 * luma:
\* (0.2126 * red + 0.7152 * green + 0.0722 * blue) / 255
LumaRed   == 2126
LumaGreen == 7152
LumaBlue  == 722
\* 0.5, on the same scale
LumaHalf  == 1275000

\* mutant: a failed decoding is read as three zero channels
calculateLuma_lenient(color) ==
    LET rgb == IF hexToRGB(color) = Null THEN <<0, 0, 0>> ELSE hexToRGB(color)
    IN  [threw |-> FALSE,
         val |-> LumaRed * rgb[1] + LumaGreen * rgb[2] + LumaBlue * rgb[3]]

\* const [red, green, blue] = this.hexToRGB(color): destructuring null throws
calculateLuma(color) ==
    LET rgb == hexToRGB(color)
    IN  IF rgb = Null
        THEN [threw |-> TRUE, val |-> 0]
        ELSE [threw |-> FALSE,
              val |-> LumaRed * rgb[1] + LumaGreen * rgb[2] + LumaBlue * rgb[3]]

black == <<"#","0","0","0","0","0","0">>
white == <<"#","F","F","F","F","F","F">>

\* mutant: a luma of exactly 0.5 gives black
contrastColor_inclusive(color) ==
    LET luma == calculateLuma(color)
    IN  IF luma.threw
        THEN [threw |-> TRUE, val |-> <<>>]
        ELSE [threw |-> FALSE, val |-> IF luma.val >= LumaHalf THEN black ELSE white]

\* return (this.calculateLuma(this.currentColor) > 0.5) ? black : white
contrastColor(color) ==
    LET luma == calculateLuma(color)
    IN  IF luma.threw
        THEN [threw |-> TRUE, val |-> <<>>]
        ELSE [threw |-> FALSE, val |-> IF luma.val > LumaHalf THEN black ELSE white]

ColorIdle ==
    /\ hexIn = <<>>
    /\ hexMeta = [form |-> "idle", chan |-> <<0, 0, 0>>]
    /\ colorOut = [done |-> FALSE]

\* channel values the inputs are written from: an even grid, the channels of
\* #0082C9 and #FFED00, the greys around luma 0.5, and #0DA371 (luma exactly 0.5)
Channels ==
    {(255 * i) \div ChanSteps : i \in 0..ChanSteps}
        \cup {130, 201, 237, 127, 128, 13, 163, 113}

Nibbles == {0, 10, 15}

\* two hex digits of a channel value, in lower or upper case
ToHex2(c, upper) ==
    LET digits == IF upper THEN UpperDigits ELSE LowerDigits
    IN  <<digits[(c \div 16) + 1], digits[(c % 16) + 1]>>

ToHex1(n, upper) == <<(IF upper THEN UpperDigits ELSE LowerDigits)[n + 1]>>

Prefix(hash) == IF hash THEN <<"#">> ELSE <<>>

\* strings that are no hex colour
Malformed ==
    { <<>>,
      <<"r","e","d">>,
      <<"#">>,
      <<"#","1","2","3","4","5">>,
      <<"#","1","2","3","4","5","6","7">>,
      <<"#","g","g","g","g","g","g">>,
      <<"#","#","a","a","b","b","c","c">>,
      <<"0","x","f","f","f","f","f","f">> }

ColorInit ==
    /\ colorOut = [done |-> FALSE]
    /\ \/ \E r \in Channels, g \in Channels, b \in Channels, up \in BOOLEAN, hash \in BOOLEAN :
             /\ hexIn = Prefix(hash) \o ToHex2(r, up) \o ToHex2(g, up) \o ToHex2(b, up)
             /\ hexMeta = [form |-> "hex6", chan |-> <<r, g, b>>]
       \/ \E r \in Nibbles, g \in Nibbles, b \in Nibbles, up \in BOOLEAN, hash \in BOOLEAN :
             /\ hexIn = Prefix(hash) \o ToHex1(r, up) \o ToHex1(g, up) \o ToHex1(b, up)
             /\ hexMeta = [form |-> "hex3", chan |-> <<17 * r, 17 * g, 17 * b>>]
       \/ \E m \in Malformed :
             /\ hexIn = m
             /\ hexMeta = [form |-> "malformed", chan |-> <<0, 0, 0>>]

\* the helper is applied to the colour: the palette validator's test, the
\* decoding, the luma and the contrast colour
ApplyColor ==
    /\ ~colorOut.done
    /\ colorOut' = [done     |-> TRUE,
                    valid    |-> HEX_REGEX(hexIn),
                    rgb      |-> hexToRGB(hexIn),
                    luma     |-> calculateLuma(hexIn),
                    contrast |-> contrastColor(hexIn)]
    /\ UNCHANGED <<hexIn, hexMeta>>
    /\ UNCHANGED <<mobileVars, pickerVars, dialogVars>>

(***************************************************************************)
(* Properties of the colour helper (checked under SpecColor)                *)
(***************************************************************************)
\* C6: for every well-formed 6-digit hex colour with channels R, G, B the
\* contrast colour is white when (0.2126 R + 0.7152 G + 0.0722 B) / 255 <= 0.5
\* and black otherwise; #FFFFFF gives black, #000000 white, #0082C9 white and
\* #FFED00 black.
C6_ContrastByLuma ==
    (colorOut.done /\ hexMeta.form = "hex6") =>
        /\ ~colorOut.contrast.threw
        /\ colorOut.contrast.val =
               IF 2126 * hexMeta.chan[1] + 7152 * hexMeta.chan[2] + 722 * hexMeta.chan[3]
                      <= 1275000
               THEN <<"#","F","F","F","F","F","F">>
               ELSE <<"#","0","0","0","0","0","0">>
        /\ hexIn = <<"#","F","F","F","F","F","F">> =>
               colorOut.contrast.val = <<"#","0","0","0","0","0","0">>
        /\ hexIn = <<"#","0","0","0","0","0","0">> =>
               colorOut.contrast.val = <<"#","F","F","F","F","F","F">>
        /\ hexIn = <<"#","0","0","8","2","C","9">> =>
               colorOut.contrast.val = <<"#","F","F","F","F","F","F">>
        /\ hexIn = <<"#","F","F","E","D","0","0">> =>
               colorOut.contrast.val = <<"#","0","0","0","0","0","0">>

\* the contrast colour of #FFED00 was computed, and is black
C6_Witness ==
    /\ colorOut.done
    /\ hexIn = <<"#","F","F","E","D","0","0">>
    /\ colorOut.contrast = [threw |-> FALSE, val |-> <<"#","0","0","0","0","0","0">>]

\* C7: hexToRGB decodes every well-formed hex colour, 3-digit or 6-digit, in
\* either case, with or without '#', into three 8-bit channel values; so every
\* colour the palette validator accepts has its contrast colour computed
\* without error.
C7_DecodesEveryWellFormedHex ==
    (colorOut.done /\ hexMeta.form \in {"hex3", "hex6"}) =>
        /\ Len(colorOut.rgb) = 3
        /\ \A i \in 1..Len(colorOut.rgb) : colorOut.rgb[i] \in 0..255
        /\ colorOut.valid => ~colorOut.contrast.threw

\* C8 as claimed: for a string that is no hex colour hexToRGB yields null and
\* calculateLuma and contrastColor end without raising an error.
C8_MalformedCompletesSilently ==
    (colorOut.done /\ hexMeta.form = "malformed") =>
        /\ colorOut.rgb = Null
        /\ ~colorOut.luma.threw
        /\ ~colorOut.contrast.threw

\* C8 as amended: for a string that hexToRGB's pattern does not match (no hex
\* colour, or a 3-digit one) hexToRGB yields null, and calculateLuma and
\* contrastColor raise a TypeError instead of producing a luma.
C8_MalformedThrows ==
    (colorOut.done /\ hexMeta.form \in {"malformed", "hex3"}) =>
        /\ colorOut.rgb = Null
        /\ colorOut.luma.threw
        /\ colorOut.contrast.threw

\* the helper was applied to the string "red"
C8_Witness ==
    /\ colorOut.done
    /\ hexIn = <<"r","e","d">>
    /\ colorOut.rgb = <<>>
    /\ colorOut.luma.threw

(***************************************************************************)
(* NcColorPicker                                                            *)
(***************************************************************************)
\* JavaScript values: strings, the colour object of the advanced picker,
\* booleans and undefined
Str(s)    == [type |-> "string", str |-> s]
Obj(h)    == [type |-> "object", hex |-> h]
Bool(b)   == [type |-> "boolean", bool |-> b]
Undefined == [type |-> "undefined"]

Event(name, arg) == [name |-> name, arg |-> arg]

Blue   == <<"#","0","0","8","2","c","9">>
Yellow == <<"#","F","F","E","D","0","0">>
Short  == <<"#","a","b","c">>
Custom == <<"#","1","2","3","4","5","6">>

\* palette items: a hex string, or an object with a color and an optional name
StrItem(c)    == [type |-> "string", str |-> c]
ObjItem(c, n) == [type |-> "object", color |-> c, name |-> n]

Palettes ==
    { <<StrItem(Blue), ObjItem(Yellow, "Yellow")>>,
      <<ObjItem(Short, ""), StrItem(Yellow)>> }

\* colours the parent passes as the value prop
PickerValues == {Blue, Yellow, Custom}

\* colours the advanced picker (vue-color's Chrome) reports
ChromeColors == {Custom, Blue}

\* palette.validator
paletteValidator(pal) ==
    \A i \in 1..Len(pal) :
        \/ pal[i].type = "string" /\ HEX_REGEX(pal[i].str)
        \/ pal[i].type = "object" /\ HEX_REGEX(pal[i].color)

\* computed normalizedPalette
normalizedPalette(pal) ==
    [i \in 1..Len(pal) |->
        [color |-> IF pal[i].type = "object" THEN pal[i].color ELSE pal[i].str,
         name  |-> IF pal[i].type = "object" /\ pal[i].name # ""
                   THEN pal[i].name
                   ELSE "A color with a HEX value {hex}"]]

PaletteColors(pal) == {normalizedPalette(pal)[i].color : i \in 1..Len(pal)}

PickerIdle ==
    /\ value = <<>>
    /\ palette = <<>>
    /\ paletteOnly = FALSE
    /\ currentColor = Undefined
    /\ advanced = FALSE
    /\ emitted = <<>>
    /\ restricted = FALSE
    /\ pickArg = Undefined
    /\ pickerOp = "idle"

\* data() { return { currentColor: this.value, advanced: false, ... } }
PickerInit ==
    /\ value \in PickerValues
    /\ palette \in Palettes
    /\ paletteOnly \in BOOLEAN
    /\ currentColor = Str(value)
    /\ advanced = FALSE
    /\ emitted = <<>>
    /\ restricted = paletteOnly
    /\ pickArg = Undefined
    /\ pickerOp = "created"

\* handleClose(): $emit('close'); $emit('update:open', false)
handleClose == <<Event("close", Undefined), Event("update:open", Bool(FALSE))>>

\* mutant: the picker is closed before the colour is submitted
handleConfirm_closeFirst(cur) ==
    [emits |-> handleClose \o <<Event("submit", cur)>>, advanced |-> FALSE]

\* handleConfirm(): $emit('submit', this.currentColor); this.handleClose();
\* this.advanced = false
handleConfirm(cur) ==
    [emits |-> <<Event("submit", cur)>> \o handleClose, advanced |-> FALSE]

\* handleBack(): this.advanced = false
handleBack == FALSE

\* handleMoreSettings(): this.advanced = true
handleMoreSettings == TRUE

\* this.currentColor.hex
HexOf(v) == IF v.type = "object" THEN Str(v.hex) ELSE Undefined

\* mutant: the argument is used as it comes, object or string
pickColor_rawArg(cur, arg) ==
    [currentColor |-> arg,
     emits |-> <<Event("update:value", arg), Event("input", arg)>>]

\* pickColor(color)
pickColor(cur, arg) ==
    LET color == IF arg.type # "string" THEN HexOf(cur) ELSE arg
    IN  [currentColor |-> color,
         emits |-> <<Event("update:value", color), Event("input", color)>>]

PickerFrame == UNCHANGED <<mobileVars, colorVars, dialogVars>>

\* <input type="radio" @click="pickColor(color)"> of the simple picker (v-if="!advanced")
ClickPaletteColor ==
    \E i \in 1..Len(palette) :
        LET r == pickColor(currentColor, Str(normalizedPalette(palette)[i].color))
        IN  /\ ~advanced
            /\ Len(emitted) + 2 <= MaxEmits
            /\ currentColor' = r.currentColor
            /\ emitted' = emitted \o r.emits
            /\ pickArg' = Str(normalizedPalette(palette)[i].color)
            /\ pickerOp' = "pickPalette"
            /\ UNCHANGED <<value, palette, paletteOnly, advanced, restricted>>
            /\ PickerFrame

\* <Chrome v-if="advanced" v-model="currentColor" @input="pickColor">: the v-model
\* callback stores the colour object, then pickColor runs with the same object
ChromeInput ==
    \E h \in ChromeColors :
        LET r == pickColor(Obj(h), Obj(h))
        IN  /\ advanced
            /\ Len(emitted) + 2 <= MaxEmits
            /\ currentColor' = r.currentColor
            /\ emitted' = emitted \o r.emits
            /\ pickArg' = Obj(h)
            /\ pickerOp' = "pickChrome"
            /\ UNCHANGED <<value, palette, paletteOnly, advanced, restricted>>
            /\ PickerFrame

\* <NcButton v-if="advanced" @click="handleBack"> inside <div v-if="!paletteOnly">
ClickBack ==
    /\ ~paletteOnly
    /\ advanced
    /\ advanced' = handleBack
    /\ pickerOp' = "back"
    /\ UNCHANGED <<value, palette, paletteOnly, currentColor, emitted, restricted, pickArg>>
    /\ PickerFrame

\* mutant: the navigation row is rendered whatever paletteOnly is
ClickMoreSettings_always ==
    /\ ~advanced
    /\ advanced' = handleMoreSettings
    /\ pickerOp' = "more"
    /\ UNCHANGED <<value, palette, paletteOnly, currentColor, emitted, restricted, pickArg>>
    /\ PickerFrame

\* <NcButton v-if="!advanced" @click="handleMoreSettings"> inside <div v-if="!paletteOnly">
ClickMoreSettings ==
    /\ ~paletteOnly
    /\ ~advanced
    /\ advanced' = handleMoreSettings
    /\ pickerOp' = "more"
    /\ UNCHANGED <<value, palette, paletteOnly, currentColor, emitted, restricted, pickArg>>
    /\ PickerFrame

\* <NcButton v-if="advanced" @click="handleConfirm"> inside <div v-if="!paletteOnly">
ClickChoose ==
    LET r == handleConfirm(currentColor)
    IN  /\ ~paletteOnly
        /\ advanced
        /\ Len(emitted) + 3 <= MaxEmits
        /\ emitted' = emitted \o r.emits
        /\ advanced' = r.advanced
        /\ pickerOp' = "confirm"
        /\ UNCHANGED <<value, palette, paletteOnly, currentColor, restricted, pickArg>>
        /\ PickerFrame

\* mutant: dismissing the popover also leaves the advanced picker
ApplyHide_reset ==
    /\ Len(emitted) + 2 <= MaxEmits
    /\ emitted' = emitted \o handleClose
    /\ advanced' = FALSE
    /\ pickerOp' = "hide"
    /\ UNCHANGED <<value, palette, paletteOnly, currentColor, restricted, pickArg>>
    /\ PickerFrame

\* <NcPopover @apply-hide="handleClose">
ApplyHide ==
    /\ Len(emitted) + 2 <= MaxEmits
    /\ emitted' = emitted \o handleClose
    /\ pickerOp' = "hide"
    /\ UNCHANGED <<value, palette, paletteOnly, currentColor, advanced, restricted, pickArg>>
    /\ PickerFrame

\* the popover is shown again: the picker has no handler for it
ShowPopover ==
    /\ pickerOp = "hide"
    /\ pickerOp' = "show"
    /\ UNCHANGED <<value, palette, paletteOnly, currentColor, advanced, emitted,
                   restricted, pickArg>>
    /\ PickerFrame

\* the parent changes the value prop: watch: { value(color) { this.currentColor = color } }
SetValue ==
    \E c \in PickerValues :
        /\ c # value
        /\ value' = c
        /\ currentColor' = Str(c)
        /\ pickerOp' = "setValue"
        /\ UNCHANGED <<palette, paletteOnly, advanced, emitted, restricted, pickArg>>
        /\ PickerFrame

\* the parent changes the paletteOnly prop
SetPaletteOnly ==
    /\ paletteOnly' = ~paletteOnly
    /\ restricted' = (restricted /\ paletteOnly')
    /\ pickerOp' = "setPaletteOnly"
    /\ UNCHANGED <<value, palette, currentColor, advanced, emitted, pickArg>>
    /\ PickerFrame

\* the parent passes another palette
SetPalette ==
    \E pal \in Palettes :
        /\ pal # palette
        /\ palette' = pal
        /\ pickerOp' = "setPalette"
        /\ UNCHANGED <<value, paletteOnly, currentColor, advanced, emitted, restricted, pickArg>>
        /\ PickerFrame

(***************************************************************************)
(* Properties of NcColorPicker (checked under SpecPicker)                   *)
(***************************************************************************)
\* the events a step appends to the picker's log
NewEvents == SubSeq(emitted', Len(emitted) + 1, Len(emitted'))

\* C9: while paletteOnly has been true since the picker was created, the
\* picker is in simple mode (advanced is false and neither the control of
\* handleMoreSettings nor that of handleConfirm can be used), and every colour
\* a step emits with 'update:value' or 'input' is the colour of an entry of
\* the normalized palette.
C9_PaletteOnlyStaysSimple ==
    /\ [](restricted =>
             /\ advanced = FALSE
             /\ ~ENABLED ClickMoreSettings
             /\ ~ENABLED ClickChoose)
    /\ [][restricted' =>
             \A i \in 1..Len(NewEvents) :
                 NewEvents[i].name \in {"update:value", "input"} =>
                     /\ NewEvents[i].arg.type = "string"
                     /\ \E j \in 1..Len(palette) :
                            normalizedPalette(palette)[j].color = NewEvents[i].arg.str]_vars

\* a palette-only picker whose value is no palette colour emitted a picked
\* palette colour, twice
C9_Witness ==
    /\ restricted
    /\ pickerOp = "pickPalette"
    /\ value = <<"#","1","2","3","4","5","6">>
    /\ Len(emitted) = 4
    /\ emitted[4] = Event("input", Str(<<"#","F","F","E","D","0","0">>))

\* C11: handleConfirm emits 'submit' with the current value of currentColor,
\* then 'close', then 'update:open' with false, in that order and once each,
\* and afterwards advanced is false and currentColor is unchanged.
C11_ConfirmSubmitsThenCloses ==
    [][pickerOp' = "confirm" =>
          /\ NewEvents = <<Event("submit", currentColor),
                           Event("close", Undefined),
                           Event("update:open", Bool(FALSE))>>
          /\ advanced' = FALSE
          /\ currentColor' = currentColor]_vars

\* a colour picked in the advanced picker was confirmed
C11_Witness ==
    /\ pickerOp = "confirm"
    /\ Len(emitted) = 5
    /\ emitted[2] = Event("input", Str(<<"#","1","2","3","4","5","6">>))
    /\ emitted[3] = Event("submit", Str(<<"#","1","2","3","4","5","6">>))
    /\ emitted[5].name = "update:open"
    /\ value # <<"#","1","2","3","4","5","6">>
    /\ currentColor = Str(<<"#","1","2","3","4","5","6">>)
    /\ advanced = FALSE

\* C12: pickColor called with a string c sets currentColor to c; called with
\* the advanced picker's colour object it sets currentColor to the hex string
\* of the current colour object; either way it emits 'update:value' and then
\* 'input', both carrying the new currentColor, which is a hex string.
C12_PickColorEmitsPickedColor ==
    [][pickerOp' \in {"pickPalette", "pickChrome"} =>
          /\ pickArg'.type = "string" => currentColor' = pickArg'
          /\ pickArg'.type = "object" => currentColor' = Str(pickArg'.hex)
          /\ currentColor'.type = "string"
          /\ HEX_REGEX(currentColor'.str)
          /\ NewEvents = <<Event("update:value", currentColor'),
                           Event("input", currentColor')>>]_vars

\* the advanced picker reported a colour object and its hex string was emitted
C12_Witness ==
    /\ pickerOp = "pickChrome"
    /\ pickArg = Obj(<<"#","1","2","3","4","5","6">>)
    /\ currentColor = Str(<<"#","1","2","3","4","5","6">>)
    /\ Len(emitted) = 2
    /\ emitted[1] = Event("update:value", Str(<<"#","1","2","3","4","5","6">>))
    /\ emitted[2] = Event("input", Str(<<"#","1","2","3","4","5","6">>))

\* C13: advanced is false in a new picker, becomes true only by
\* handleMoreSettings and false only by handleBack or handleConfirm;
\* handleClose (the popover dismissed), showing the popover again, pickColor
\* and a change of the value prop leave it unchanged.
C13_AdvancedChangesOnlyByNavigation ==
    /\ [](pickerOp = "created" => advanced = FALSE)
    /\ [][(~advanced /\ advanced') => pickerOp' = "more"]_vars
    /\ [][(advanced /\ ~advanced') => pickerOp' \in {"back", "confirm"}]_vars
    /\ [][pickerOp' \in {"hide", "show", "pickPalette", "pickChrome", "setValue"} =>
              advanced' = advanced]_vars

\* a picker dismissed in advanced mode and shown again is in advanced mode
C13_Witness ==
    /\ pickerOp = "show"
    /\ advanced = TRUE
    /\ Len(emitted) = 2
    /\ emitted[1] = Event("close", Undefined)
    /\ emitted[2] = Event("update:open", Bool(FALSE))

(***************************************************************************)
(* NcDialog                                                                 *)
(***************************************************************************)
\* an emitted event with its cause: by = k for the k-th button click (its
\* handleClosing and the handleClosed of its timer), by = 0 for NcModal's events
DlgEvent(name, arg, by) == [name |-> name, arg |-> arg, by |-> by]

DialogIdle ==
    /\ open = FALSE
    /\ showModal = TRUE
    /\ timers = <<>>
    /\ dlgEmitted = <<>>
    /\ nClicks = 0
    /\ reopened = FALSE

\* props.open (default true); const showModal = ref(true)
DialogInit ==
    /\ open \in BOOLEAN
    /\ showModal = TRUE
    /\ timers = <<>>
    /\ dlgEmitted = <<>>
    /\ nClicks = 0
    /\ reopened = FALSE

\* handleClosing(): showModal.value = false; emit('closing')
handleClosing(by) ==
    [showModal |-> FALSE, emits |-> <<DlgEvent("closing", Undefined, by)>>]

\* mutant: the closed handler leaves the modal hidden
handleClosed_keepHidden(by) ==
    [showModal |-> FALSE, emits |-> <<DlgEvent("update:open", Bool(FALSE), by)>>]

\* handleClosed(): showModal.value = true; emit('update:open', false)
handleClosed(by) ==
    [showModal |-> TRUE, emits |-> <<DlgEvent("update:open", Bool(FALSE), by)>>]

\* mutant: the button handler sets no timer
handleButtonClose_noTimer(by, pending) ==
    [showModal |-> FALSE, emits |-> <<DlgEvent("closing", Undefined, by)>>,
     timers |-> pending]

\* handleButtonClose(): handleClosing(); window.setTimeout(() => handleClosed(), 300)
handleButtonClose(by, pending) ==
    LET c == handleClosing(by)
    IN  [showModal |-> c.showModal, emits |-> c.emits, timers |-> Append(pending, by)]

\* computed modalProps: show: props.open && showModal.value
modalShow == open /\ showModal

DialogFrame == UNCHANGED <<mobileVars, colorVars, pickerVars>>

\* room left in the log for the events of the pending timers
Room(n) == Len(dlgEmitted) + Len(timers) + n <= MaxEmits + MaxClicks

\* <NcDialogButton @click="handleButtonClose"> inside <NcModal v-if="open">
ClickButton ==
    LET r == handleButtonClose(nClicks + 1, timers)
    IN  /\ open
        /\ nClicks < MaxClicks
        /\ Room(2)
        /\ nClicks' = nClicks + 1
        /\ showModal' = r.showModal
        /\ dlgEmitted' = dlgEmitted \o r.emits
        /\ timers' = r.timers
        /\ reopened' = FALSE
        /\ UNCHANGED open
        /\ DialogFrame

\* the oldest pending timer fires: () => handleClosed()
TimerFire ==
    /\ timers # <<>>
    /\ LET r == handleClosed(Head(timers))
       IN  /\ showModal' = r.showModal
           /\ dlgEmitted' = dlgEmitted \o r.emits
    /\ timers' = Tail(timers)
    /\ UNCHANGED <<open, nClicks, reopened>>
    /\ DialogFrame

\* <NcModal @update:show="handleClosing">
ModalUpdateShow ==
    LET r == handleClosing(0)
    IN  /\ open
        /\ Room(1)
        /\ showModal' = r.showModal
        /\ dlgEmitted' = dlgEmitted \o r.emits
        /\ UNCHANGED <<open, timers, nClicks, reopened>>
        /\ DialogFrame

\* <NcModal @close="handleClosed">
ModalClose ==
    LET r == handleClosed(0)
    IN  /\ open
        /\ Room(1)
        /\ showModal' = r.showModal
        /\ dlgEmitted' = dlgEmitted \o r.emits
        /\ UNCHANGED <<open, timers, nClicks, reopened>>
        /\ DialogFrame

\* the parent changes the open prop (:open.sync, or opening the dialog again)
SetOpen ==
    /\ open' = ~open
    /\ reopened' = (reopened \/ (timers # <<>> /\ open'))
    /\ UNCHANGED <<showModal, timers, dlgEmitted, nClicks>>
    /\ DialogFrame

(***************************************************************************)
(* Properties of NcDialog (checked under FairSpecDialog)                    *)
(***************************************************************************)
\* positions of the events called name that the k-th click caused
EventsOf(name, k) ==
    {i \in 1..Len(dlgEmitted) : dlgEmitted[i].name = name /\ dlgEmitted[i].by = k}

TimerPending(k) == \E i \in 1..Len(timers) : timers[i] = k

\* each click has emitted 'closing' once; it has emitted 'update:open' (false)
\* once if its timer has fired and not at all before, and after its 'closing'
ClickEventsInOrder ==
    \A k \in 1..nClicks :
        /\ Cardinality(EventsOf("closing", k)) = 1
        /\ Cardinality(EventsOf("update:open", k)) = IF TimerPending(k) THEN 0 ELSE 1
        /\ \A i \in EventsOf("closing", k), j \in EventsOf("update:open", k) :
               i < j /\ dlgEmitted[j].arg = Bool(FALSE)

\* C10: each click on a dialog button emits 'closing' exactly once, at once,
\* and 'update:open' with false exactly once when its timer fires, never
\* before its 'closing'; with the timer run fairly it is eventually emitted.
C10_ClickClosesOnce ==
    /\ []ClickEventsInOrder
    /\ [][nClicks' # nClicks =>
              dlgEmitted' = Append(dlgEmitted, DlgEvent("closing", Undefined, nClicks'))]_vars
    /\ \A k \in 1..MaxClicks :
           (nClicks >= k) ~> (EventsOf("update:open", k) # {})

\* two clicks, both timers fired: 'closing' and 'update:open' of each are out
C10_Witness ==
    /\ nClicks = 2
    /\ timers = <<>>
    /\ EventsOf("closing", 1) # {}
    /\ EventsOf("update:open", 2) # {}

\* the events a step appends to the dialog's log
NewDlgEvents == SubSeq(dlgEmitted', Len(dlgEmitted) + 1, Len(dlgEmitted'))

\* the last event of the log is the 'update:open' of the k-th click's timer
TimerJustFired(k) ==
    /\ dlgEmitted # <<>>
    /\ dlgEmitted[Len(dlgEmitted)] = DlgEvent("update:open", Bool(FALSE), k)

\* C14: the modal is shown exactly when open and showModal; showModal is true
\* in a new dialog, becomes false only in a step of handleClosing and is true
\* after every handleClosed; so after a button click the timer eventually
\* makes showModal true again, and a dialog opened again while showModal is
\* true is shown; the handleClosed of a pending timer emits 'update:open'
\* false whatever open is by then.
C14_ShowModalRestoredByTimer ==
    /\ [](modalShow <=> (open = TRUE /\ showModal = TRUE))
    /\ [](dlgEmitted = <<>> => showModal = TRUE)
    /\ [][(showModal /\ ~showModal') =>
              (NewDlgEvents # <<>> /\ NewDlgEvents[1].name = "closing")]_vars
    /\ [][(NewDlgEvents # <<>> /\ NewDlgEvents[1].name = "update:open") =>
              showModal' = TRUE]_vars
    /\ [][(timers # <<>> /\ timers' = Tail(timers)) =>
              /\ NewDlgEvents = <<DlgEvent("update:open", Bool(FALSE), Head(timers))>>
              /\ showModal' = TRUE
              /\ modalShow' = open]_vars
    /\ [][(~open /\ open' /\ showModal) => modalShow']_vars
    /\ \A k \in 1..MaxClicks :
           TimerPending(k) ~> (TimerJustFired(k) /\ showModal)

\* the dialog was opened again while the timer of its only click was pending;
\* the timer then fired: 'update:open' false is out and the modal is shown
C14_Witness ==
    /\ nClicks = 1
    /\ reopened
    /\ open
    /\ TimerJustFired(1)
    /\ showModal
    /\ modalShow

(***************************************************************************)
(* Specifications                                                           *)
(***************************************************************************)
MobileNext ==
    \/ SetClientWidth
    \/ OnResize
    \/ CreateComponent
    \/ ReadFlag

InitMobile == MobileInit /\ ColorIdle /\ PickerIdle /\ DialogIdle

SpecMobile == InitMobile /\ [][MobileNext]_vars

ColorNext == ApplyColor

InitColor == MobileIdle /\ ColorInit /\ PickerIdle /\ DialogIdle

SpecColor == InitColor /\ [][ColorNext]_vars

PickerNext ==
    \/ ClickPaletteColor
    \/ ChromeInput
    \/ ClickBack
    \/ ClickMoreSettings
    \/ ClickChoose
    \/ ApplyHide
    \/ ShowPopover
    \/ SetValue
    \/ SetPaletteOnly
    \/ SetPalette

InitPicker == MobileIdle /\ ColorIdle /\ PickerInit /\ DialogIdle

SpecPicker == InitPicker /\ [][PickerNext]_vars

DialogNext ==
    \/ ClickButton
    \/ TimerFire
    \/ ModalUpdateShow
    \/ ModalClose
    \/ SetOpen

InitDialog == MobileIdle /\ ColorIdle /\ PickerIdle /\ DialogInit

SpecDialog == InitDialog /\ [][DialogNext]_vars

\* a timer set with window.setTimeout is run by the event loop
FairSpecDialog == SpecDialog /\ WF_vars(TimerFire)

====
